---- MODULE Spec2Model ----
(***************************************************************************)
(* Model of netlify/functions/fetch-url.js: the fetch gateway (host        *)
(* classifier, resolver guard, robots.txt evaluation, timeout-bounded      *)
(* fetch and the handler that composes them).                              *)
(*                                                                         *)
(* JavaScript strings that the code inspects character by character (host  *)
(* names, addresses, robots.txt text, URL paths) are sequences of          *)
(* one-character strings.  Error messages and response bodies, which the   *)
(* code only passes along, are sequences of parts.                         *)
(*                                                                         *)
(* One action is one run-to-completion segment of the handler: the code    *)
(* between two awaits, started by the event (DNS answer, response, error,  *)
(* timer) that resumes it.                                                 *)
(***************************************************************************)
EXTENDS Integers, Sequences, FiniteSets, TLC

(***************************************************************************)
(* String primitives of the JavaScript runtime used by the code.           *)
(***************************************************************************)
UpperChars == <<"A","B","C","D","E","F","G","H","I","J","K","L","M",
                "N","O","P","Q","R","S","T","U","V","W","X","Y","Z">>
LowerChars == <<"a","b","c","d","e","f","g","h","i","j","k","l","m",
                "n","o","p","q","r","s","t","u","v","w","x","y","z">>
DigitChars == <<"0","1","2","3","4","5","6","7","8","9">>
WhiteSpace == {" ", "\t", "\n", "\r"}

LowerChar(c) ==
    IF \E k \in 1..Len(UpperChars) : UpperChars[k] = c
    THEN LowerChars[CHOOSE k \in 1..Len(UpperChars) : UpperChars[k] = c]
    ELSE c

\* String.prototype.toLowerCase
toLowerCase(s) == [k \in 1..Len(s) |-> LowerChar(s[k])]

\* String.prototype.startsWith
startsWith(s, p) == Len(p) <= Len(s) /\ SubSeq(s, 1, Len(p)) = p

\* The recursive operators below recurse on a value (the rest of the string,
\* bound by the set it is drawn from), not on an unevaluated expression.

\* String.prototype.split with a one-character separator
RECURSIVE split(_, _)
split(s, sep) ==
    IF \A k \in 1..Len(s) : s[k] # sep
    THEN <<s>>
    ELSE LET k == CHOOSE k \in 1..Len(s) :
                      s[k] = sep /\ \A j \in 1..(k - 1) : s[j] # sep
         IN  CHOOSE parts \in { <<SubSeq(s, 1, k - 1)>> \o split(rest, sep) :
                                  rest \in {SubSeq(s, k + 1, Len(s))} } : TRUE

\* String.prototype.trim
RECURSIVE trimStart(_)
trimStart(s) ==
    IF s # <<>> /\ s[1] \in WhiteSpace
    THEN CHOOSE t \in {trimStart(rest) : rest \in {Tail(s)}} : TRUE
    ELSE s
RECURSIVE trimEnd(_)
trimEnd(s) ==
    IF s # <<>> /\ s[Len(s)] \in WhiteSpace
    THEN CHOOSE t \in {trimEnd(rest) : rest \in {SubSeq(s, 1, Len(s) - 1)}} : TRUE
    ELSE s
trim(s) == trimEnd(trimStart(s))

\* Number(string): white space is trimmed, the empty string is 0, a string
\* of decimal digits is its value, anything else in the alphabet used here
\* is NaN.
NaN == -1
IsDigits(s) == \A k \in 1..Len(s) : \E d \in 1..Len(DigitChars) : DigitChars[d] = s[k]
DigitValue(c) == (CHOOSE d \in 1..Len(DigitChars) : DigitChars[d] = c) - 1
RECURSIVE DecimalValue(_)
DecimalValue(s) ==
    IF s = <<>> THEN 0
    ELSE CHOOSE n \in { 10 * DecimalValue(rest) + DigitValue(s[Len(s)]) :
                          rest \in {SubSeq(s, 1, Len(s) - 1)} } : TRUE
Number(s) ==
    LET t == trim(s)
    IN  IF IsDigits(t) THEN DecimalValue(t) ELSE NaN

(***************************************************************************)
(* Host Classifier (fetch-url.js lines 9-27).                              *)
(***************************************************************************)
\* ip.split('.').map(Number)
Octets(ip) == LET parts == split(ip, ".")
              IN  [k \in 1..Len(parts) |-> Number(parts[k])]

isPrivateIPv4(ip) ==
    LET o == Octets(ip)
    IN  IF Len(o) # 4 \/ \E k \in 1..Len(o) : o[k] = NaN
        THEN FALSE
        ELSE \/ o[1] = 10
             \/ (o[1] = 172 /\ o[2] >= 16 /\ o[2] <= 31)
             \/ (o[1] = 192 /\ o[2] = 168)
             \/ o[1] = 127
             \/ (o[1] = 169 /\ o[2] = 254)

isPrivateIPv6(ip) ==
    LET x == toLowerCase(ip)
    IN  \/ x = <<":",":","1">>
        \/ startsWith(x, <<"f","c">>)
        \/ startsWith(x, <<"f","d">>)
        \/ startsWith(x, <<"f","e","8","0",":">>)

\* The mutant forgets the unspecified address 0.0.0.0.
isLocalHostNoZero(hostname) ==
    LET h == toLowerCase(hostname)
    IN  \/ h = <<"l","o","c","a","l","h","o","s","t">>
        \/ h = <<":",":","1">>

isLocalHost(hostname) ==
    LET h == toLowerCase(hostname)
    IN  \/ h = <<"l","o","c","a","l","h","o","s","t">>
        \/ h = <<"0",".","0",".","0",".","0">>
        \/ h = <<":",":","1">>

(***************************************************************************)
(* Inputs of one invocation and answers of the environment.                *)
(***************************************************************************)
Invocations == {1, 2}
Kinds == {"robots", "target"}

ExampleHost == <<"e","x","a","m","p","l","e",".","c","o","m">>
Hosts == { ExampleHost,
           <<"L","O","C","A","L","H","O","S","T">>,
           <<"l","o","c","a","l","h","o","s","t">>,
           <<"0",".","0",".","0",".","0">>,
           <<"[",":",":","1","]">>,
           <<"1","2","7",".","0",".","0",".","1">>,
           <<"8",".","8",".","8",".","8">> }
Paths == { <<"/","p","r","i","v","a","t","e","/","d","a","t","a">>,
           <<"/","p","u","b","l","i","c">>,
           <<"/">> }

UrlEvent(scheme, host, path) ==
    [kind |-> "url", scheme |-> scheme, host |-> host, path |-> path]
NonUrlEvent(kind) ==
    [kind |-> kind, scheme |-> "", host |-> <<>>, path |-> <<>>]

\* event.queryStringParameters?.url: absent, the empty string, a string
\* that is no absolute URL, or scheme://host/path.
Events ==
    {NonUrlEvent("absent"), NonUrlEvent("empty"), NonUrlEvent("malformed")}
    \cup {UrlEvent("http:", ExampleHost, p) : p \in Paths}
    \cup {UrlEvent("http:", h, <<"/">>) : h \in Hosts}
    \cup {UrlEvent("https:", ExampleHost, <<"/","p","u","b","l","i","c">>)}
    \cup {UrlEvent("ftp:", h, <<"/","p","u","b","l","i","c">>) :
            h \in {ExampleHost, <<"l","o","c","a","l","h","o","s","t">>}}
    \cup {UrlEvent("file:", <<>>, <<"/","p","u","b","l","i","c">>)}

\* new URL(url): throws for a string that is no absolute URL; the host of a
\* URL is lower-cased by the parser, an IPv6 literal keeps its brackets.
URL(ev) ==
    [ok |-> ev.kind = "url",
     protocol |-> ev.scheme,
     hostname |-> toLowerCase(ev.host),
     host |-> toLowerCase(ev.host),
     pathname |-> IF ev.path = <<>> THEN <<"/">> ELSE ev.path]

Address(a, f) == [kind |-> "address", address |-> a, family |-> f]
NoAddress == [kind |-> "none", address |-> <<>>, family |-> 0]
LookupError == [kind |-> "error", address |-> <<>>, family |-> 0]

PublicV4 == Address(<<"8",".","8",".","8",".","8">>, 4)
LoopbackV4 == Address(<<"1","2","7",".","0",".","0",".","1">>, 4)
PublicV6 == Address(<<"2","0","0","1",":","d","b","8",":",":","1">>, 6)
UniqueLocalV6 == Address(<<"f","d","0","0",":",":","1">>, 6)

\* What a name server may answer for a host name.
DnsAnswers ==
    { PublicV4, LoopbackV4, PublicV6, UniqueLocalV6,
      Address(<<"1","0",".","0",".","0",".","5">>, 4),
      Address(<<"1","6","9",".","2","5","4",".","1","6","9",".","2","5","4">>, 4),
      Address(<<"1","7","2",".","1","6",".","0",".","1">>, 4),
      Address(<<"1","9","2",".","1","6","8",".","1",".","1">>, 4),
      Address(<<":",":","1">>, 6),
      Address(<<"f","e","8","0",":",":","1">>, 6),
      LookupError }
\* What the resolution inside fetch() may yield for a host name.
FetchAnswers == { PublicV4, LoopbackV4, UniqueLocalV6 }

IsIPv4Literal(h) ==
    LET parts == split(h, ".")
    IN  /\ Len(parts) = 4
        /\ \A k \in 1..4 : parts[k] # <<>> /\ IsDigits(parts[k])
                           /\ DecimalValue(parts[k]) <= 255
IsBracketedIPv6(h) == Len(h) >= 2 /\ h[1] = "[" /\ h[Len(h)] = "]"

\* dns.lookup(hostname, { verbatim: true }): an IPv4 literal is returned as
\* it is; a bracketed IPv6 literal is no address for the resolver, which
\* fails on it or, at best, answers the literal; any other name is resolved
\* by the name server, which may answer anything or fail.
lookup(hostname) ==
    IF IsIPv4Literal(hostname) THEN {Address(hostname, 4)}
    ELSE IF IsBracketedIPv6(hostname)
         THEN {LookupError, Address(SubSeq(hostname, 2, Len(hostname) - 1), 6)}
         ELSE DnsAnswers

\* fetch(url): the address the request is sent to.  A literal is used as it
\* is, a name is resolved again by fetch itself.
ConnectTargets(host) ==
    IF IsIPv4Literal(host) THEN {Address(host, 4)}
    ELSE IF IsBracketedIPv6(host)
         THEN {Address(SubSeq(host, 2, Len(host) - 1), 6)}
         ELSE FetchAnswers

RobotsStatuses == {200, 404}
TargetStatuses == {200, 201, 204, 304, 404, 500}
TargetBodies == { <<"<html>ok</html>">>, <<>> }

\* res.ok
ok(status) == status >= 200 /\ status <= 299

(***************************************************************************)
(* Robots Policy Evaluator: the scanner and the decision of                *)
(* allowedByRobots (fetch-url.js lines 67-82).                             *)
(***************************************************************************)
MaxRobotsLines == 2

RobotsLines ==
    { <<"U","s","e","r","-","a","g","e","n","t",":"," ","*">>,
      <<"D","i","s","a","l","l","o","w",":"," ","/","p","r","i","v","a","t","e">>,
      <<"U","s","e","r","-","a","g","e","n","t",":"," ",
        "A","I","-","W","e","b","-","S","c","r","a","p","e","r">>,
      <<"d","i","s","a","l","l","o","w",":"," ","/","p","u","b",":","x","\r">>,
      <<"#"," ","p","o","l","i","c","y">> }

RECURSIVE join(_, _)
join(lines, sep) ==
    IF lines = <<>> THEN <<>>
    ELSE IF Len(lines) = 1 THEN lines[1]
    ELSE lines[1] \o sep \o join(Tail(lines), sep)

\* The robots.txt texts a server may send: up to MaxRobotsLines lines.
RobotsBodies ==
    { join(ls, <<"\n">>) :
        ls \in UNION { [1..k -> RobotsLines] : k \in 0..MaxRobotsLines } }

\* txt.split(/\r?\n/)
splitLines(txt) ==
    LET pieces == split(txt, "\n")
    IN  [k \in 1..Len(pieces) |->
            IF k < Len(pieces) /\ pieces[k] # <<>>
               /\ pieces[k][Len(pieces[k])] = "\r"
            THEN SubSeq(pieces[k], 1, Len(pieces[k]) - 1)
            ELSE pieces[k]]

UserAgentField == <<"u","s","e","r","-","a","g","e","n","t",":">>
DisallowField == <<"d","i","s","a","l","l","o","w",":">>

\* /^user-agent:\s*\*/i
IsUserAgentStar(line) ==
    /\ startsWith(toLowerCase(line), UserAgentField)
    /\ LET rest == trimStart(SubSeq(line, Len(UserAgentField) + 1, Len(line)))
       IN  rest # <<>> /\ rest[1] = "*"
\* /^user-agent:/i
IsUserAgent(line) == startsWith(toLowerCase(line), UserAgentField)
\* /^disallow:/i
IsDisallow(line) == startsWith(toLowerCase(line), DisallowField)

\* line.split(':')[1]?.trim()
DisallowValue(line) ==
    LET parts == split(line, ":")
    IN  IF Len(parts) >= 2 THEN trim(parts[2]) ELSE <<>>

\* The loop of lines 70-79 over the remaining lines, with its two locals.
RECURSIVE ScanLines(_, _, _)
ScanLines(raws, relevant, disallow) ==
    IF raws = <<>> THEN disallow
    ELSE LET line == trim(Head(raws))
             rest == Tail(raws)
         IN  IF line = <<>> \/ startsWith(line, <<"#">>)
                 THEN ScanLines(rest, relevant, disallow)
             ELSE IF IsUserAgentStar(line)
                 THEN ScanLines(rest, TRUE, disallow)
             ELSE IF IsUserAgent(line)
                 THEN ScanLines(rest, FALSE, disallow)
             ELSE IF relevant /\ IsDisallow(line)
                 THEN LET p == DisallowValue(line)
                      IN  ScanLines(rest, relevant,
                                    IF p # <<>> THEN Append(disallow, p)
                                    ELSE disallow)
             ELSE ScanLines(rest, relevant, disallow)

CollectDisallow(txt) == ScanLines(splitLines(txt), FALSE, <<>>)

\* The mutant matches a rule only against the identical path.
RobotsDecisionExact(disallow, path) ==
    IF Len(disallow) = 0 THEN TRUE
    ELSE ~ \E k \in 1..Len(disallow) : disallow[k] # <<>> /\ path = disallow[k]

\* Lines 80-82: the value allowedByRobots returns for a collected rule list.
RobotsDecision(disallow, path) ==
    IF Len(disallow) = 0 THEN TRUE
    ELSE ~ \E k \in 1..Len(disallow) :
               disallow[k] # <<>> /\ startsWith(path, disallow[k])

(***************************************************************************)
(* Messages and responses.                                                 *)
(***************************************************************************)
NoError == <<>>
RequiredMessage == <<"URL parameter is required.">>
ProtocolMessage == <<"Invalid URL protocol.">>
InvalidUrlMessage == <<"Invalid URL">>
BlockedHostMessage == <<"Blocked private host">>
BlockedAddressMessage == <<"Blocked private address">>
RobotsMessage == <<"Blocked by robots.txt">>
LookupErrorMessage == <<"getaddrinfo ENOTFOUND">>
FetchFailedMessage == <<"fetch failed">>
AbortMessage == <<"This operation was aborted">>
BodyFailedMessage == <<"terminated">>
\* The mutant reports every upstream failure alike.
UpstreamMessageGeneric(status) == <<"Upstream error">>

\* `Upstream HTTP ${r.status}`
UpstreamMessage(status) == <<"Upstream HTTP ", status>>

\* json(statusCode, bodyObj)
json(statusCode, bodyObj) ==
    [statusCode |-> statusCode,
     headers |-> "application/json; charset=utf-8",
     body |-> bodyObj]
\* The mutant's catch block answers 200.
HandlerCatchAsSuccess(message) == json(200, [error |-> message])

\* Lines 114-117: the handler's catch block.
HandlerCatch(message) == json(500, [error |-> message])

NoResponse == [statusCode |-> 0, headers |-> "", body |-> [pending |-> TRUE]]

\* The mutant also lets ftp through.
ALLOWED_PROTOCOLS_WithFtp == {"http:", "https:", "ftp:"}

\* Line 7.
ALLOWED_PROTOCOLS == {"http:", "https:"}

(***************************************************************************)
(* Resolver Guard (lines 29-40).                                           *)
(***************************************************************************)
\* The mutant classifies IPv4 answers only.
GuardBlocksAddressV4Only(ans) ==
    ans.family = 4 /\ isPrivateIPv4(ans.address)

\* Line 33: the condition under which the guard throws after the lookup.
GuardBlocksAddress(ans) ==
    \/ (ans.family = 4 /\ isPrivateIPv4(ans.address))
    \/ (ans.family = 6 /\ isPrivateIPv6(ans.address))

\* The mutant rethrows whatever the lookup threw.
GuardRethrowsAll(message) == TRUE

\* Line 37: /Blocked private/.test(String(e.message))
GuardRethrows(message) ==
    \E k \in 1..Len(message) :
        message[k] \in {"Blocked private host", "Blocked private address"}

\* What the try block of lines 31-35 throws for a lookup that has settled.
GuardThrown(ans) ==
    IF ans.kind = "error" THEN LookupErrorMessage
    ELSE IF GuardBlocksAddress(ans) THEN BlockedAddressMessage
    ELSE NoError

\* The error assertNotPrivateHost fails with once its lookup has settled,
\* NoError when it returns.
assertNotPrivateHost(ans) ==
    LET e == GuardThrown(ans)
    IN  IF e # NoError /\ GuardRethrows(e) THEN e ELSE NoError

(***************************************************************************)
(* Bounded Fetcher (lines 42-59): one record per fetchWithTimeout call.    *)
(***************************************************************************)
ROBOTS_TIMEOUT_MS == 5000
TARGET_TIMEOUT_MS == 15000

Request(protocol, host, path) ==
    [protocol |-> protocol, host |-> host, path |-> path]
NoRequest == Request("", <<>>, <<>>)

\* state: none | inflight | resolved | rejected   (the fetch promise)
\* timer: none | pending | fired | cleared        (setTimeout of line 44)
\* body:  none | pending | read | failed          (res.text())
NoCall ==
    [state |-> "none", timer |-> "none", ms |-> 0, aborted |-> FALSE,
     conn |-> NoAddress, status |-> 0, body |-> "none", count |-> 0,
     req |-> NoRequest]

\* Lines 43-54: a new controller, a new timer, the request issued.
fetchWithTimeout(old, req, ms) ==
    [state |-> "inflight", timer |-> "pending", ms |-> ms, aborted |-> FALSE,
     conn |-> NoAddress, status |-> 0, body |-> "none",
     count |-> old.count + 1, req |-> req]

\* The mutant leaves the timer armed.
clearTimeoutForgotten(t) == t

\* Line 57: clearTimeout(t) in the finally block.
clearTimeout(t) == IF t = "pending" THEN "cleared" ELSE t

\* The mutant's timer callback does not abort.
abortNothing(aborted) == aborted

\* Line 44: the timer callback, ac.abort().
abort(aborted) == TRUE

\* The fetch promise settles and the finally block of line 56 runs.
Settle(c, state, status) ==
    [c EXCEPT !.state = state, !.status = status,
              !.timer = clearTimeout(c.timer)]

\* The error a rejected fetch carries.
RejectionMessage(c) == IF c.aborted THEN AbortMessage ELSE FetchFailedMessage

(***************************************************************************)
(* State.  Every variable is indexed by the invocation: the module keeps   *)
(* no state between or across invocations.                                 *)
(***************************************************************************)
VARIABLES
    pc,         \* where the invocation is suspended: idle | dns |
                \* robotsFetch | robotsBody | targetFetch | targetBody | done
    url,        \* the event's url parameter
    stages,     \* the stages of the pipeline entered so far, in order
    dnsCount,   \* dns.lookup calls started by the guard
    dnsAnswer,  \* what the guard's lookup settled with
    call,       \* call[i][k]: the fetchWithTimeout call of kind k
    robotsTxt,  \* the robots.txt text read (txt of line 67)
    disallow,   \* the rule list collected from it
    allowed,    \* what allowedByRobots returned: pending | allowed | disallowed
    response,   \* what the handler returned
    probe       \* a direct call of isPrivateIPv4 or of the robots scan loop:
                \* its argument and, once it has returned, its value

vars == <<pc, url, stages, dnsCount, dnsAnswer, call, robotsTxt, disallow,
          allowed, response, probe>>

handlerVars == <<pc, url, stages, dnsCount, dnsAnswer, call, robotsTxt,
                 disallow, allowed, response>>

NoProbe == [kind |-> "none", parts |-> <<>>, input |-> <<>>,
            result |-> <<>>, done |-> FALSE]

StageOrder == <<"ParseURL", "ValidateProtocol", "GuardHost", "CheckRobots",
                "FetchTarget", "Done">>

\* No invocation has started.
Idle ==
    /\ pc = [i \in Invocations |-> "idle"]
    /\ url = [i \in Invocations |-> NonUrlEvent("none")]
    /\ stages = [i \in Invocations |-> <<>>]
    /\ dnsCount = [i \in Invocations |-> 0]
    /\ dnsAnswer = [i \in Invocations |-> NoAddress]
    /\ call = [i \in Invocations |-> [k \in Kinds |-> NoCall]]
    /\ robotsTxt = [i \in Invocations |-> <<>>]
    /\ disallow = [i \in Invocations |-> <<>>]
    /\ allowed = [i \in Invocations |-> "pending"]
    /\ response = [i \in Invocations |-> NoResponse]

Init == Idle /\ probe = NoProbe

\* The handler returns r.
Return(i, r) ==
    /\ pc' = [pc EXCEPT ![i] = "done"]
    /\ response' = [response EXCEPT ![i] = r]

Enter(i, names) == stages' = [stages EXCEPT ![i] = @ \o names]

\* `${u.protocol}//${u.host}/robots.txt`
RobotsUrl(u) ==
    Request(u.protocol, u.host, <<"/","r","o","b","o","t","s",".","t","x","t">>)
TargetUrl(u) == Request(u.protocol, u.host, u.pathname)

(***************************************************************************)
(* Lines 97-104: from the event to the guard's lookup.                     *)
(***************************************************************************)
Invoke(i, ev) ==
    LET u == URL(ev)
    IN  /\ pc[i] = "idle"
        /\ url' = [url EXCEPT ![i] = ev]
        /\ IF ev.kind \in {"absent", "empty"}
             THEN /\ Return(i, json(400, [error |-> RequiredMessage]))
                  /\ Enter(i, <<"ParseURL">>)
                  /\ UNCHANGED dnsCount
           ELSE IF ~u.ok
             THEN /\ Return(i, HandlerCatch(InvalidUrlMessage))
                  /\ Enter(i, <<"ParseURL">>)
                  /\ UNCHANGED dnsCount
           ELSE IF u.protocol \notin ALLOWED_PROTOCOLS
             THEN /\ Return(i, json(400, [error |-> ProtocolMessage]))
                  /\ Enter(i, <<"ParseURL", "ValidateProtocol">>)
                  /\ UNCHANGED dnsCount
           ELSE IF isLocalHost(u.hostname)
             THEN /\ Return(i, HandlerCatch(BlockedHostMessage))
                  /\ Enter(i, <<"ParseURL", "ValidateProtocol", "GuardHost">>)
                  /\ UNCHANGED dnsCount
           ELSE /\ pc' = [pc EXCEPT ![i] = "dns"]
                /\ dnsCount' = [dnsCount EXCEPT ![i] = @ + 1]
                /\ Enter(i, <<"ParseURL", "ValidateProtocol", "GuardHost">>)
                /\ UNCHANGED response
        /\ UNCHANGED <<probe, dnsAnswer, call, robotsTxt, disallow, allowed>>

(***************************************************************************)
(* Lines 32-39, 104-106, 61-65: the lookup settles; the guard throws or    *)
(* returns, and then allowedByRobots issues the robots.txt request.        *)
(***************************************************************************)
DnsSettles(i, ans) ==
    LET u == URL(url[i])
        e == assertNotPrivateHost(ans)
    IN  /\ pc[i] = "dns"
        /\ ans \in lookup(u.hostname)
        /\ dnsAnswer' = [dnsAnswer EXCEPT ![i] = ans]
        /\ IF e # NoError
             THEN /\ Return(i, HandlerCatch(e))
                  /\ UNCHANGED <<call, stages>>
             ELSE /\ pc' = [pc EXCEPT ![i] = "robotsFetch"]
                  /\ call' = [call EXCEPT ![i]["robots"] =
                                fetchWithTimeout(@, RobotsUrl(u), ROBOTS_TIMEOUT_MS)]
                  /\ Enter(i, <<"CheckRobots">>)
                  /\ UNCHANGED response
        /\ UNCHANGED <<probe, url, dnsCount, robotsTxt, disallow, allowed>>

(***************************************************************************)
(* The environment of a request in flight.                                 *)
(***************************************************************************)
\* fetch resolves the host and sends the request to address a.
Connect(i, k, a) ==
    /\ call[i][k].state = "inflight"
    /\ call[i][k].conn = NoAddress
    /\ ~call[i][k].aborted
    /\ a \in ConnectTargets(call[i][k].req.host)
    /\ call' = [call EXCEPT ![i][k].conn = a]
    /\ UNCHANGED <<pc, url, stages, dnsCount, dnsAnswer, robotsTxt, disallow,
                   probe, allowed, response>>

\* The mutant keeps one controller per kind of call for the whole process.
TimerFiresShared(i, k) ==
    /\ call[i][k].timer = "pending"
    /\ call' = [j \in Invocations |->
                  IF j = i
                  THEN [call[j] EXCEPT ![k].timer = "fired", ![k].aborted = TRUE]
                  ELSE [call[j] EXCEPT ![k].aborted = TRUE]]
    /\ UNCHANGED <<pc, url, stages, dnsCount, dnsAnswer, robotsTxt, disallow,
                   probe, allowed, response>>

\* Line 44: the timer of the call fires and aborts its controller.
TimerFires(i, k) ==
    /\ call[i][k].timer = "pending"
    /\ call' = [call EXCEPT ![i][k].timer = "fired",
                            ![i][k].aborted = abort(@)]
    /\ UNCHANGED <<pc, url, stages, dnsCount, dnsAnswer, robotsTxt, disallow,
                   probe, allowed, response>>

(***************************************************************************)
(* Lines 106-109: allowedByRobots has returned verdict; rc is its call.    *)
(***************************************************************************)
\* The mutant never refuses.
RobotsBlocksNever(verdict) == FALSE

\* Line 107: if (!allowed) the handler refuses.
RobotsBlocks(verdict) == ~verdict

AfterRobots(i, rc, verdict) ==
    /\ allowed' = [allowed EXCEPT ![i] =
                     IF verdict THEN "allowed" ELSE "disallowed"]
    /\ IF RobotsBlocks(verdict)
         THEN /\ call' = [call EXCEPT ![i]["robots"] = rc]
              /\ Return(i, json(403, [error |-> RobotsMessage]))
              /\ UNCHANGED stages
         ELSE /\ call' = [call EXCEPT
                            ![i]["robots"] = rc,
                            ![i]["target"] =
                                fetchWithTimeout(@, TargetUrl(URL(url[i])),
                                                 TARGET_TIMEOUT_MS)]
              /\ pc' = [pc EXCEPT ![i] = "targetFetch"]
              /\ Enter(i, <<"FetchTarget">>)
              /\ UNCHANGED response

\* The mutant's catch block refuses.
RobotsOnFailureDeny == FALSE

\* Lines 83-85: catch { return true }.
RobotsOnFailure == TRUE

\* Line 66: if (!res.ok) return true.
RobotsOnBadStatus == TRUE

\* The mutant retries the robots.txt request once when it fails.
RobotsFetchRetries(i) ==
    /\ pc[i] = "robotsFetch"
    /\ IF call[i]["robots"].count < 2
         THEN /\ call' = [call EXCEPT ![i]["robots"] =
                            fetchWithTimeout(Settle(@, "rejected", 0), @.req, @.ms)]
              /\ UNCHANGED <<pc, stages, allowed, response>>
         ELSE AfterRobots(i, Settle(call[i]["robots"], "rejected", 0), TRUE)
    /\ UNCHANGED <<probe, url, dnsCount, dnsAnswer, robotsTxt, disallow>>

\* The robots.txt fetch rejects: a network error, or the abort.
RobotsFetchRejects(i) ==
    /\ pc[i] = "robotsFetch"
    /\ AfterRobots(i, Settle(call[i]["robots"], "rejected", 0), RobotsOnFailure)
    /\ UNCHANGED <<probe, url, dnsCount, dnsAnswer, robotsTxt, disallow>>

\* The robots.txt response headers arrive.
RobotsResponds(i, status) ==
    LET rc == Settle(call[i]["robots"], "resolved", status)
    IN  /\ pc[i] = "robotsFetch"
        /\ call[i]["robots"].conn # NoAddress
        /\ ~call[i]["robots"].aborted
        /\ IF ~ok(status)
             THEN AfterRobots(i, rc, RobotsOnBadStatus)
             ELSE /\ pc' = [pc EXCEPT ![i] = "robotsBody"]
                  /\ call' = [call EXCEPT ![i]["robots"] =
                                [rc EXCEPT !.body = "pending"]]
                  /\ UNCHANGED <<stages, allowed, response>>
        /\ UNCHANGED <<probe, url, dnsCount, dnsAnswer, robotsTxt, disallow>>

\* Lines 67-82: res.text() resolves with txt; scan and decide.
RobotsBodyRead(i, txt) ==
    LET rules == CollectDisallow(txt)
    IN  /\ pc[i] = "robotsBody"
        /\ robotsTxt' = [robotsTxt EXCEPT ![i] = txt]
        /\ disallow' = [disallow EXCEPT ![i] = rules]
        /\ AfterRobots(i, [call[i]["robots"] EXCEPT !.body = "read"],
                       RobotsDecision(rules, URL(url[i]).pathname))
        /\ UNCHANGED <<probe, url, dnsCount, dnsAnswer>>

\* res.text() rejects.
RobotsBodyFails(i) ==
    /\ pc[i] = "robotsBody"
    /\ AfterRobots(i, [call[i]["robots"] EXCEPT !.body = "failed"],
                   RobotsOnFailure)
    /\ UNCHANGED <<probe, url, dnsCount, dnsAnswer, robotsTxt, disallow>>

(***************************************************************************)
(* Lines 109-117: the target fetch.                                        *)
(***************************************************************************)
TargetFetchRejects(i) ==
    /\ pc[i] = "targetFetch"
    /\ call' = [call EXCEPT ![i]["target"] = Settle(@, "rejected", 0)]
    /\ Return(i, HandlerCatch(RejectionMessage(call[i]["target"])))
    /\ UNCHANGED <<url, stages, dnsCount, dnsAnswer, robotsTxt, disallow,
                   probe, allowed>>

TargetResponds(i, status) ==
    LET tc == Settle(call[i]["target"], "resolved", status)
    IN  /\ pc[i] = "targetFetch"
        /\ call[i]["target"].conn # NoAddress
        /\ ~call[i]["target"].aborted
        /\ IF ~ok(status)
             THEN /\ call' = [call EXCEPT ![i]["target"] = tc]
                  /\ Return(i, json(status, [error |-> UpstreamMessage(status)]))
             ELSE /\ call' = [call EXCEPT ![i]["target"] =
                                [tc EXCEPT !.body = "pending"]]
                  /\ pc' = [pc EXCEPT ![i] = "targetBody"]
                  /\ UNCHANGED response
        /\ UNCHANGED <<url, stages, dnsCount, dnsAnswer, robotsTxt, disallow,
                       probe, allowed>>

TargetBodyRead(i, html) ==
    /\ pc[i] = "targetBody"
    /\ call' = [call EXCEPT ![i]["target"].body = "read"]
    /\ Return(i, json(200, [html |-> html]))
    /\ Enter(i, <<"Done">>)
    /\ UNCHANGED <<probe, url, dnsCount, dnsAnswer, robotsTxt, disallow, allowed>>

TargetBodyFails(i) ==
    /\ pc[i] = "targetBody"
    /\ call' = [call EXCEPT ![i]["target"].body = "failed"]
    /\ Return(i, HandlerCatch(BodyFailedMessage))
    /\ UNCHANGED <<url, stages, dnsCount, dnsAnswer, robotsTxt, disallow,
                   probe, allowed>>

(***************************************************************************)
(* One invocation of the handler against every environment.                *)
(***************************************************************************)
Single == {1}

Next ==
    \/ \E i \in Single, ev \in Events : Invoke(i, ev)
    \/ \E i \in Single, ans \in DnsAnswers : DnsSettles(i, ans)
    \/ \E i \in Single, k \in Kinds, a \in FetchAnswers \cup DnsAnswers :
          Connect(i, k, a)
    \/ \E i \in Single, k \in Kinds : TimerFires(i, k)
    \/ \E i \in Single : RobotsFetchRejects(i)
    \/ \E i \in Single, status \in RobotsStatuses : RobotsResponds(i, status)
    \/ \E i \in Single, txt \in RobotsBodies : RobotsBodyRead(i, txt)
    \/ \E i \in Single : RobotsBodyFails(i)
    \/ \E i \in Single : TargetFetchRejects(i)
    \/ \E i \in Single, status \in TargetStatuses : TargetResponds(i, status)
    \/ \E i \in Single, html \in TargetBodies : TargetBodyRead(i, html)
    \/ \E i \in Single : TargetBodyFails(i)

Spec == Init /\ [][Next]_vars

(***************************************************************************)
(* What the runtime guarantees to happen: the resolver answers or fails,   *)
(* a pending timer fires, and an aborted fetch rejects.  Nothing obliges   *)
(* the remote side to send anything.                                       *)
(***************************************************************************)
AbortDelivered(i) ==
    \/ (call[i]["robots"].aborted /\ RobotsFetchRejects(i))
    \/ (call[i]["target"].aborted /\ TargetFetchRejects(i))

Fairness ==
    \A i \in Single :
        /\ WF_vars(\E ans \in DnsAnswers : DnsSettles(i, ans))
        /\ \A k \in Kinds : WF_vars(TimerFires(i, k))
        /\ WF_vars(AbortDelivered(i))

SpecFair == Init /\ [][Next]_vars /\ Fairness

(***************************************************************************)
(* Two invocations in one process.  Each call of the handler is a chain of *)
(* continuations on the same event loop; the continuations of the two      *)
(* calls interleave in any order.                                          *)
(***************************************************************************)
ConcEvents ==
    { UrlEvent("http:", ExampleHost,
               <<"/","p","r","i","v","a","t","e","/","d","a","t","a">>),
      UrlEvent("http:", <<"l","o","c","a","l","h","o","s","t">>, <<"/">>),
      NonUrlEvent("malformed") }
ConcDnsAnswers == { PublicV4, LoopbackV4, LookupError }
ConcRobotsBodies ==
    { <<>>,
      <<"U","s","e","r","-","a","g","e","n","t",":"," ","*","\n",
        "D","i","s","a","l","l","o","w",":"," ","/","p","r","i","v","a","t","e">> }
ConcTargetStatuses == { 200, 404 }
ConcTargetBodies == { <<"<html>ok</html>">> }

NextConc ==
    \/ \E i \in Invocations, ev \in ConcEvents : Invoke(i, ev)
    \/ \E i \in Invocations, ans \in ConcDnsAnswers : DnsSettles(i, ans)
    \/ \E i \in Invocations, k \in Kinds, a \in ConcDnsAnswers :
          Connect(i, k, a)
    \/ \E i \in Invocations, k \in Kinds : TimerFires(i, k)
    \/ \E i \in Invocations : RobotsFetchRejects(i)
    \/ \E i \in Invocations, status \in RobotsStatuses :
          RobotsResponds(i, status)
    \/ \E i \in Invocations, txt \in ConcRobotsBodies : RobotsBodyRead(i, txt)
    \/ \E i \in Invocations : RobotsBodyFails(i)
    \/ \E i \in Invocations : TargetFetchRejects(i)
    \/ \E i \in Invocations, status \in ConcTargetStatuses :
          TargetResponds(i, status)
    \/ \E i \in Invocations, html \in ConcTargetBodies : TargetBodyRead(i, html)
    \/ \E i \in Invocations : TargetBodyFails(i)

SpecConc == Init /\ [][NextConc]_vars

(***************************************************************************)
(* isPrivateIPv4 and the robots scan loop, called directly.                *)
(***************************************************************************)
\* The argument ip of isPrivateIPv4 (line 9): dotted strings of up to
\* MaxParts parts, each part a decimal number, the empty token or a token
\* that is no number.
MaxParts == 5

FirstTokens ==
    { <<"1", "0">>, <<"1", "7", "2">>, <<"1", "9", "2">>, <<"1", "2", "7">>,
      <<"1", "6", "9">>, <<"8">>, <<"1">>, <<>>, <<"x">> }
SecondTokens ==
    { <<"0">>, <<"1", "6">>, <<"1", "5">>, <<"3", "1">>, <<"3", "2">>,
      <<"1", "6", "8">>, <<"2", "5", "4">>, <<"8">>, <<"1">>, <<>>, <<"x">> }
TailTokens ==
    { <<"0">>, <<"1">>, <<"8">>, <<>>, <<"x">> }

RECURSIVE PartsOfLength(_)
PartsOfLength(n) ==
    IF n = 1 THEN { <<t>> : t \in FirstTokens }
    ELSE { Append(p, t) : p \in PartsOfLength(n - 1),
                          t \in IF n = 2 THEN SecondTokens ELSE TailTokens }

DottedParts == UNION { PartsOfLength(n) : n \in 1..MaxParts }

InitClassify ==
    /\ Idle
    /\ \E parts \in DottedParts :
          probe = [kind |-> "ipv4", parts |-> parts,
                   input |-> join(parts, <<".">>),
                   result |-> FALSE, done |-> FALSE]

\* Lines 9-19: isPrivateIPv4(ip) returns.
ClassifyIPv4 ==
    /\ probe.kind = "ipv4"
    /\ ~probe.done
    /\ probe' = [probe EXCEPT !.result = isPrivateIPv4(probe.input),
                              !.done = TRUE]
    /\ UNCHANGED handlerVars

NextClassify == ClassifyIPv4

SpecClassify == InitClassify /\ [][NextClassify]_vars

\* The lines of a robots.txt text (txt of line 67): up to MaxScanLines lines,
\* each a User-agent line, a Disallow line, a blank line or a comment, kept
\* with the field value it was written from.
MaxScanLines == 3

AgentLine(field, token) ==
    [kind |-> IF token = <<"*">> THEN "star" ELSE "other",
     value |-> token, text |-> field \o <<" ">> \o token]
DisallowLine(field, value) ==
    [kind |-> "disallow", value |-> value, text |-> field \o <<" ">> \o value]
PlainLine(kind, text) == [kind |-> kind, value |-> <<>>, text |-> text]

ScanLineForms ==
    { AgentLine(<<"U", "s", "e", "r", "-", "a", "g", "e", "n", "t", ":">>, <<"*">>),
      AgentLine(<<"U", "S", "E", "R", "-", "A", "G", "E", "N", "T", ":">>, <<"*">>),
      AgentLine(<<"U", "s", "e", "r", "-", "a", "g", "e", "n", "t", ":">>,
                <<"A", "I", "-", "W", "e", "b", "-", "S", "c", "r", "a", "p", "e", "r">>),
      DisallowLine(<<"D", "i", "s", "a", "l", "l", "o", "w", ":">>,
                   <<"/", "p", "r", "i", "v", "a", "t", "e">>),
      DisallowLine(<<"d", "i", "s", "a", "l", "l", "o", "w", ":">>,
                   <<"/", "w", "i", "k", "i", "/", "S", "p", "e", "c", "i", "a", "l", ":", "S", "e", "a", "r", "c", "h">>),
      DisallowLine(<<"D", "i", "s", "a", "l", "l", "o", "w", ":">>, <<>>),
      PlainLine("blank", <<>>),
      PlainLine("comment", <<"#", " ", "p", "o", "l", "i", "c", "y">>) }

ScanInputs == UNION { [1..n -> ScanLineForms] : n \in 0..MaxScanLines }

InitScan ==
    /\ Idle
    /\ \E lines \in ScanInputs :
          probe = [kind |-> "scan", parts |-> lines,
                   input |-> join([k \in 1..Len(lines) |-> lines[k].text],
                                  <<"\n">>),
                   result |-> <<>>, done |-> FALSE]

\* Lines 68-79: the scan loop of allowedByRobots has run over txt.
ScanRobots ==
    /\ probe.kind = "scan"
    /\ ~probe.done
    /\ probe' = [probe EXCEPT !.result = CollectDisallow(probe.input),
                              !.done = TRUE]
    /\ UNCHANGED handlerVars

NextScan == ScanRobots

SpecScan == InitScan /\ [][NextScan]_vars

(***************************************************************************)
(* Properties.                                                             *)
(***************************************************************************)
IsPrivateAnswer(a) ==
    /\ a.kind = "address"
    /\ \/ (a.family = 4 /\ isPrivateIPv4(a.address))
       \/ (a.family = 6 /\ isPrivateIPv6(a.address))

NoFetchIssued(i) == \A k \in Kinds : call[i][k].count = 0

\* C1: when the guard's lookup succeeds with an address the classifier marks
\* private, loopback or link-local, the invocation ends with the error
\* 'Blocked private address' and has issued no outbound request, neither
\* for robots.txt nor for the target.
C1_FailClosedOnPrivateResolution ==
    \A i \in Invocations :
        IsPrivateAnswer(dnsAnswer[i]) =>
            /\ pc[i] = "done"
            /\ response[i] = json(500, [error |-> BlockedAddressMessage])
            /\ NoFetchIssued(i)

C1_Witness ==
    \E i \in Invocations :
        /\ dnsAnswer[i] = UniqueLocalV6
        /\ pc[i] = "done"
        /\ response[i].statusCode = 500

\* C2: no outbound request, for robots.txt or for the target, is ever sent
\* to an address that is private, loopback or link-local, whatever each
\* resolution of the host name answers.
C2_NoRequestToPrivateAddress ==
    \A i \in Invocations : \A k \in Kinds :
        ~IsPrivateAnswer(call[i][k].conn)

LocalHostNames ==
    { <<"l","o","c","a","l","h","o","s","t">>,
      <<"0",".","0",".","0",".","0">>,
      <<":",":","1">> }

C4_UnsupportedProtocolStopsEarly ==
    \A i \in Invocations :
        (/\ pc[i] # "idle"
         /\ url[i].kind = "url"
         /\ url[i].scheme \notin {"http:", "https:"})
        => /\ pc[i] = "done"
           /\ response[i] = json(400, [error |-> ProtocolMessage])
           /\ \A k \in 1..Len(stages[i]) : stages[i][k] # "GuardHost"
           /\ dnsCount[i] = 0
           /\ NoFetchIssued(i)

C4_Witness ==
    \E i \in Invocations :
        /\ url[i] = UrlEvent("ftp:", ExampleHost, <<"/","p","u","b","l","i","c">>)
        /\ response[i].statusCode = 400

StagesInOrder(i) ==
    /\ Len(stages[i]) <= Len(StageOrder)
    /\ \A k \in 1..Len(stages[i]) : stages[i][k] = StageOrder[k]

Settled(c) == c.state \in {"resolved", "rejected"}

AtMostOneGetEach(i) ==
    LET u == URL(url[i])
        r == call[i]["robots"]
        t == call[i]["target"]
    IN  /\ dnsCount[i] <= 1
        /\ r.count <= 1
        /\ t.count <= 1
        /\ r.count = 1 =>
              /\ r.ms = 5000
              /\ r.req = Request(u.protocol, u.host,
                                 <<"/","r","o","b","o","t","s",".","t","x","t">>)
        /\ t.count = 1 =>
              /\ t.ms = 15000
              /\ t.req = Request(u.protocol, u.host, u.pathname)
              /\ Settled(r)

FailureIsTerminal(i) ==
    (pc[i] = "done" /\ response[i].statusCode # 200) =>
        /\ stages[i] # <<>>
        /\ stages[i][Len(stages[i])] # "Done"

NothingAfterReturn(i) ==
    pc[i] = "done" =>
        /\ pc'[i] = "done"
        /\ stages'[i] = stages[i]
        /\ response'[i] = response[i]
        /\ dnsCount'[i] = dnsCount[i]
        /\ call'[i] = call[i]

\* C5: the stages run in the order ParseURL, ValidateProtocol, GuardHost,
\* CheckRobots, FetchTarget, Done, each at most once; the first failing
\* stage ends the invocation and nothing runs after the response; there is
\* at most one GET to <origin>/robots.txt (5000 ms timer) and at most one GET
\* to the target (15000 ms timer), the robots GET has completed or failed
\* when the target GET is issued, and nothing is retried.
C5_LinearPipeline ==
    /\ [](\A i \in Invocations :
            StagesInOrder(i) /\ AtMostOneGetEach(i) /\ FailureIsTerminal(i))
    /\ [][\A i \in Invocations : NothingAfterReturn(i)]_vars

C5_Witness ==
    \E i \in Invocations :
        /\ stages[i] = StageOrder
        /\ call[i]["robots"].count = 1
        /\ call[i]["target"].count = 1

\* C6: when the robots evaluation returns false the handler answers 403
\* 'Blocked by robots.txt' and the target URL is never fetched.
C6_RobotsDisallowedNeverFetches ==
    \A i \in Invocations :
        allowed[i] = "disallowed" =>
            /\ pc[i] = "done"
            /\ response[i] = json(403, [error |-> RobotsMessage])
            /\ call[i]["target"].count = 0

C6_Witness ==
    \E i \in Invocations :
        /\ allowed[i] = "disallowed"
        /\ response[i].statusCode = 403

RobotsFailed(i) ==
    LET r == call[i]["robots"]
    IN  \/ r.state = "rejected"
        \/ (r.state = "resolved" /\ ~(r.status >= 200 /\ r.status <= 299))
        \/ r.body = "failed"

\* C7: when the robots.txt fetch rejects (network error or abort by its
\* timer), answers with a non-2xx status, or reading it fails,
\* allowedByRobots returns true: the invocation gets no error response from
\* the robots stage and goes on to fetch the target.
C7_RobotsFailureIsPermissive ==
    \A i \in Invocations :
        RobotsFailed(i) =>
            /\ allowed[i] = "allowed"
            /\ call[i]["target"].count = 1
            /\ Len(stages[i]) >= 5 /\ stages[i][5] = "FetchTarget"
            /\ response[i].statusCode # 403

C7_Witness ==
    \E i \in Invocations :
        /\ call[i]["robots"].state = "rejected"
        /\ call[i]["robots"].timer = "fired"
        /\ call[i]["target"].state = "inflight"

IsPrefixOf(d, path) ==
    /\ Len(d) <= Len(path)
    /\ \A k \in 1..Len(d) : path[k] = d[k]

ExampleRobotsTxt ==
    <<"U","s","e","r","-","a","g","e","n","t",":"," ","*","\n",
      "D","i","s","a","l","l","o","w",":"," ","/","p","r","i","v","a","t","e">>

\* C8: when robots.txt was read from a 2xx response the target is allowed if
\* no Disallow rule was collected, and otherwise disallowed exactly when its
\* path starts with a collected prefix; with 'User-agent: *' /
\* 'Disallow: /private' the path /private/data is disallowed and /public is
\* allowed.
C8_RobotsDecisionIsPrefixMatch ==
    \A i \in Invocations :
        LET path == URL(url[i]).pathname
        IN  call[i]["robots"].body = "read" =>
              /\ allowed[i] \in {"allowed", "disallowed"}
              /\ (allowed[i] = "disallowed") <=>
                    (/\ Len(disallow[i]) > 0
                     /\ \E k \in 1..Len(disallow[i]) :
                            IsPrefixOf(disallow[i][k], path))
              /\ robotsTxt[i] = ExampleRobotsTxt =>
                    /\ path = <<"/","p","r","i","v","a","t","e","/","d","a","t","a">>
                         => allowed[i] = "disallowed"
                    /\ path = <<"/","p","u","b","l","i","c">>
                         => allowed[i] = "allowed"

C8_Witness ==
    \E i \in Invocations :
        /\ call[i]["robots"].body = "read"
        /\ robotsTxt[i] = ExampleRobotsTxt
        /\ URL(url[i]).pathname = <<"/","p","r","i","v","a","t","e","/","d","a","t","a">>
        /\ allowed[i] = "disallowed"

\* C9: when the timer of an outbound fetch fires before a response, the
\* request is aborted and fetchWithTimeout fails, never resolves; for the
\* target fetch the handler then returns a failure response, not a success.
C9_TimeoutAbortsAndFails ==
    \A i \in Invocations :
        /\ \A k \in Kinds :
              call[i][k].timer = "fired" =>
                  /\ call[i][k].aborted
                  /\ call[i][k].state \in {"inflight", "rejected"}
                  /\ call[i][k].status = 0
        /\ (call[i]["target"].timer = "fired" /\ pc[i] = "done") =>
              /\ call[i]["target"].state = "rejected"
              /\ response[i] = json(500, [error |-> AbortMessage])

C9_Witness ==
    \E i \in Invocations :
        /\ call[i]["target"].timer = "fired"
        /\ call[i]["target"].ms = 15000
        /\ pc[i] = "done"

\* C10: a fetchWithTimeout call that has returned or thrown has no pending
\* timer, and once the handler has returned no timer of the invocation is
\* pending.
C10_NoTimerOutlivesItsCall ==
    \A i \in Invocations :
        /\ \A k \in Kinds :
              Settled(call[i][k]) => call[i][k].timer \in {"cleared", "fired"}
        /\ pc[i] = "done" =>
              \A k \in Kinds : call[i][k].timer # "pending"

C10_Witness ==
    \E i \in Invocations :
        /\ pc[i] = "done"
        /\ call[i]["robots"].state = "rejected"
        /\ call[i]["robots"].timer = "cleared"
        /\ call[i]["target"].state = "resolved"
        /\ call[i]["target"].timer = "cleared"

\* C11: every invocation eventually returns a response, given that timers
\* fire, even when the remote side stalls forever before the response
\* headers or while the body is being read.
C11_EveryInvocationReturns ==
    \A i \in Invocations : (pc[i] # "idle") ~> (pc[i] = "done")

\* C12: a final target response with a status s that is not OK is answered
\* with status s unchanged and the body { error: "Upstream HTTP s" }; the
\* upstream body is not read and not returned.
C12_UpstreamStatusPassesThrough ==
    \A i \in Invocations :
        LET t == call[i]["target"]
        IN  (t.state = "resolved" /\ ~(t.status >= 200 /\ t.status <= 299)) =>
                /\ pc[i] = "done"
                /\ response[i].statusCode = t.status
                /\ response[i].body = [error |-> <<"Upstream HTTP ", t.status>>]
                /\ t.body = "none"

C12_Witness ==
    \E i \in Invocations :
        /\ call[i]["target"].status = 404
        /\ response[i] = json(404, [error |-> <<"Upstream HTTP ", 404>>])

\* C13: on the success path the result carries the body text as html and
\* the original upstream status code.
C13_DoneCarriesUpstreamStatus ==
    \A i \in Invocations :
        call[i]["target"].body = "read" =>
            /\ DOMAIN response[i].body = {"html"}
            /\ response[i].statusCode = call[i]["target"].status

\* C14: a url parameter that is present but no valid absolute URL is
\* answered with status 400, and no lookup or outbound request is made.
C14_MalformedUrlIs400 ==
    \A i \in Invocations :
        (url[i].kind = "malformed" /\ pc[i] # "idle") =>
            /\ pc[i] = "done"
            /\ response[i].statusCode = 400
            /\ dnsCount[i] = 0
            /\ NoFetchIssued(i)

IsSuccessStatus(status) == status >= 200 /\ status <= 299

\* C15: the handler always ends with a response: an exception in URL
\* parsing, the guard, the target fetch or the body read becomes a 500 whose
\* body is { error: <message> }; every response is either status 200 with
\* only an html field or a non-2xx status with only an error field.
C15_ExceptionsBecome500 ==
    \A i \in Invocations :
        LET t == call[i]["target"]
            r == response[i]
        IN  /\ pc[i] = "done" =>
                \/ (r.statusCode = 200 /\ DOMAIN r.body = {"html"})
                \/ (/\ r.statusCode # 0
                    /\ ~IsSuccessStatus(r.statusCode)
                    /\ DOMAIN r.body = {"error"})
            /\ (url[i].kind = "malformed" /\ pc[i] # "idle") =>
                  r = json(500, [error |-> <<"Invalid URL">>])
            /\ (pc[i] = "done" /\ stages[i] # <<>>
                /\ stages[i][Len(stages[i])] = "GuardHost") =>
                  \/ r = json(500, [error |-> <<"Blocked private host">>])
                  \/ r = json(500, [error |-> <<"Blocked private address">>])
            /\ t.state = "rejected" =>
                  /\ pc[i] = "done"
                  /\ r = json(500, [error |-> IF t.timer = "fired"
                                              THEN AbortMessage
                                              ELSE FetchFailedMessage])
            /\ t.body = "failed" =>
                  /\ pc[i] = "done"
                  /\ r = json(500, [error |-> BodyFailedMessage])

C15_Witness ==
    \E i \in Invocations :
        /\ call[i]["target"].body = "failed"
        /\ response[i].statusCode = 500

\* C16 as stated: when the guard's lookup fails for a host name that is no
\* local alias, the handler goes on to CheckRobots and to FetchTarget.
C16_LookupFailureReachesTarget ==
    \A i \in Invocations :
        (dnsAnswer[i].kind = "error" /\ pc[i] = "done") =>
            call[i]["target"].count = 1

\* C16 as amended: when the guard's lookup fails for a host name that is no
\* local alias, the guard returns without failing and the handler goes on
\* to CheckRobots and, unless robots.txt disallows the path, to FetchTarget;
\* an error reported to the caller comes from the robots check or from the
\* fetch, never from the guard or its lookup.
C16_FailOpenOnLookupFailure ==
    \A i \in Invocations :
        dnsAnswer[i].kind = "error" =>
            /\ ~isLocalHost(URL(url[i]).hostname)
            /\ Len(stages[i]) >= 4 /\ stages[i][4] = "CheckRobots"
            /\ call[i]["robots"].count = 1
            /\ allowed[i] = "allowed" => call[i]["target"].count = 1
            /\ allowed[i] = "disallowed" =>
                  response[i] = json(403, [error |-> RobotsMessage])
            /\ pc[i] = "done" =>
                  /\ allowed[i] # "pending"
                  /\ response[i].body \notin
                        { [error |-> BlockedHostMessage],
                          [error |-> BlockedAddressMessage],
                          [error |-> LookupErrorMessage] }

C16_Witness ==
    \E i \in Invocations :
        /\ dnsAnswer[i].kind = "error"
        /\ call[i]["target"].state = "rejected"
        /\ response[i] = json(500, [error |-> FetchFailedMessage])

IsOctetToken(t) == t # <<>> /\ IsDigits(t) /\ DecimalValue(t) <= 255

\* The reference classifier: private ranges of well-formed addresses only.
ReferenceIsPrivateIPv4(parts) ==
    /\ Len(parts) = 4
    /\ \A k \in 1..4 : IsOctetToken(parts[k])
    /\ LET a == DecimalValue(parts[1])
           b == DecimalValue(parts[2])
       IN  \/ a = 10
           \/ (a = 172 /\ b >= 16 /\ b <= 31)
           \/ (a = 192 /\ b = 168)
           \/ a = 127
           \/ (a = 169 /\ b = 254)

\* C18: isPrivateIPv4 agrees with the reference classifier on every dotted
\* string of octet tokens: true for the well-formed addresses of the private
\* ranges, false for every other well-formed address, and false for every
\* input that is not exactly 4 numeric octets.
C18_ClassifierAgreesWithReference ==
    (probe.kind = "ipv4" /\ probe.done) =>
        probe.result = ReferenceIsPrivateIPv4(probe.parts)

\* The two-state scanner over the lines as written.
RECURSIVE ReferenceScan(_, _, _)
ReferenceScan(lines, relevant, rules) ==
    IF lines = <<>> THEN rules
    ELSE LET l == Head(lines)
         IN  IF l.kind = "star" THEN ReferenceScan(Tail(lines), TRUE, rules)
             ELSE IF l.kind = "other"
             THEN ReferenceScan(Tail(lines), FALSE, rules)
             ELSE IF l.kind = "disallow" /\ relevant /\ l.value # <<>>
             THEN ReferenceScan(Tail(lines), relevant, Append(rules, l.value))
             ELSE ReferenceScan(Tail(lines), relevant, rules)

\* C19: after scanning any sequence of robots.txt lines the collected rule
\* list is, in file order, the complete non-empty path values of the
\* Disallow lines that occur inside a relevant block.
C19_ScanCollectsCompleteValues ==
    (probe.kind = "scan" /\ probe.done) =>
        probe.result = ReferenceScan(probe.parts, FALSE, <<>>)

\* "User-agent: AI-Web-Scraper\nDisallow: /private"
OwnAgentRobotsTxt ==
    <<"U", "s", "e", "r", "-", "a", "g", "e", "n", "t", ":", " ", "A", "I", "-", "W", "e", "b", "-", "S", "c", "r", "a", "p", "e", "r">>
    \o <<"\n">> \o <<"D", "i", "s", "a", "l", "l", "o", "w", ":", " ", "/", "p", "r", "i", "v", "a", "t", "e">>

\* C20: Disallow lines inside a block opened by a User-agent line naming
\* the proxy's own agent token are collected and enforced like those of a
\* 'User-agent: *' block.
C20_OwnAgentBlockIsEnforced ==
    \A i \in Invocations :
        (/\ robotsTxt[i] = OwnAgentRobotsTxt
         /\ call[i]["robots"].body = "read"
         /\ URL(url[i]).pathname = <<"/","p","r","i","v","a","t","e",
                                     "/","d","a","t","a">>) =>
            /\ disallow[i] = << <<"/","p","r","i","v","a","t","e">> >>
            /\ allowed[i] = "disallowed"
            /\ response[i] = json(403, [error |-> RobotsMessage])

\* Everything invocation i holds.
Local(i) ==
    <<pc[i], url[i], stages[i], dnsCount[i], dnsAnswer[i], call[i],
      robotsTxt[i], disallow[i], allowed[i], response[i]>>

\* What allowedByRobots returns on the answers invocation i itself received.
AloneVerdict(i) ==
    LET rc == call[i]["robots"]
    IN  IF \/ rc.state = "rejected"
           \/ rc.body = "failed"
           \/ (rc.state = "resolved" /\ ~IsSuccessStatus(rc.status))
        THEN TRUE
        ELSE RobotsDecision(CollectDisallow(robotsTxt[i]),
                            URL(url[i]).pathname)

\* The responses a handler running alone gives on the url, the DNS answer
\* and the HTTP answers that invocation i itself received.
AloneResponses(i) ==
    LET ev == url[i]
        u == URL(ev)
        tc == call[i]["target"]
    IN  IF ev.kind \in {"absent", "empty"}
          THEN {json(400, [error |-> RequiredMessage])}
        ELSE IF ~u.ok
          THEN {json(500, [error |-> InvalidUrlMessage])}
        ELSE IF u.protocol \notin ALLOWED_PROTOCOLS
          THEN {json(400, [error |-> ProtocolMessage])}
        ELSE IF isLocalHost(u.hostname)
          THEN {json(500, [error |-> BlockedHostMessage])}
        ELSE IF IsPrivateAnswer(dnsAnswer[i])
          THEN {json(500, [error |-> BlockedAddressMessage])}
        ELSE IF ~AloneVerdict(i)
          THEN {json(403, [error |-> RobotsMessage])}
        ELSE IF tc.state = "rejected"
          THEN {json(500, [error |-> IF tc.timer = "fired"
                                     THEN AbortMessage
                                     ELSE FetchFailedMessage])}
        ELSE IF ~IsSuccessStatus(tc.status)
          THEN {json(tc.status, [error |-> <<"Upstream HTTP ", tc.status>>])}
        ELSE IF tc.body = "failed"
          THEN {json(500, [error |-> BodyFailedMessage])}
        ELSE {json(200, [html |-> h]) : h \in TargetBodies}

\* C17: two invocations interleaved in any order are independent: a call is
\* aborted only by its own timer, a step of one invocation (a timer firing
\* included) leaves everything the other holds unchanged, and the response
\* of each is the one it returns alone on the same DNS and HTTP answers.
C17_ConcurrentInvocationsIndependent ==
    /\ [](\A i \in Invocations :
            /\ \A k \in Kinds :
                  call[i][k].aborted => call[i][k].timer = "fired"
            /\ pc[i] = "done" => response[i] \in AloneResponses(i))
    /\ [][\A i \in Invocations, k \in Kinds :
            TimerFires(i, k) =>
                \A j \in Invocations \ {i} : Local(j)' = Local(j)]_vars
    /\ [][\E i \in Invocations :
            \A j \in Invocations \ {i} : Local(j)' = Local(j)]_vars
    /\ [][\A i \in Invocations, h \in TargetBodies :
            TargetBodyRead(i, h) =>
                response'[i] = json(200, [html |-> h])]_vars

C17_Witness ==
    /\ call[1]["target"].timer = "fired"
    /\ response[1] = json(500, [error |-> AbortMessage])
    /\ pc[2] = "targetFetch"
    /\ call[2]["target"].timer = "pending"
    /\ ~call[2]["target"].aborted

====
